---- MODULE Spec2Model ----
(***************************************************************************)
(* A model of the retrofit `service` attribute macro                       *)
(* (retrofit-macros/src/service.rs) and of the client code it generates.   *)
(*                                                                         *)
(* Strings are sequences of one-character strings, so that the regex scan  *)
(* of the path template and the expansion of `format!` are computed        *)
(* character by character, as the code computes them.                      *)
(***************************************************************************)
EXTENDS Integers, Sequences, FiniteSets, TLC

VARIABLES service_attr, item, consts, expanded, rustc, instance, callers

vars == <<service_attr, item, consts, expanded, rustc, instance, callers>>

(***************************************************************************)
(* Characters and strings                                                  *)
(***************************************************************************)

Digits == {"0", "1", "2", "3", "4", "5", "6", "7", "8", "9"}

\* the characters the regex class \w accepts, among those the model uses
WordChars ==
    {"a", "b", "c", "e", "l", "o", "r", "s", "u", "v", "w", "z", "_",
     "A", "E", "G", "N", "P", "R", "S", "T", "U", "V"} \cup Digits

IsIdent(s) == /\ Len(s) > 0
              /\ \A i \in 1..Len(s) : s[i] \in WordChars
              /\ s[1] \notin Digits

\* the index of the first occurrence of character c in s at or after i, 0 if none
RECURSIVE IndexFrom(_, _, _)
IndexFrom(s, c, i) ==
    IF i > Len(s) THEN 0
    ELSE IF s[i] = c THEN i
    ELSE IndexFrom(s, c, i + 1)

\* the end of the maximal run of word characters of s starting at i (i - 1 if none)
RECURSIVE WordEnd(_, _)
WordEnd(s, i) ==
    IF i <= Len(s) /\ s[i] \in WordChars THEN WordEnd(s, i + 1) ELSE i - 1

(***************************************************************************)
(* RE_FMT_ARG = \{(?P<name>\w+)(:[^\}]+)?\}                                *)
(***************************************************************************)

\* a match of RE_FMT_ARG anchored at position i of s
MatchAt(s, i) ==
    IF i > Len(s) \/ s[i] # "{" THEN [ok |-> FALSE]
    ELSE LET e == WordEnd(s, i + 1)
             name == SubSeq(s, i + 1, e)
         IN  IF e < i + 1 \/ e + 1 > Len(s) THEN [ok |-> FALSE]
             ELSE IF s[e + 1] = "}" THEN [ok |-> TRUE, name |-> name, end |-> e + 1]
             ELSE IF s[e + 1] = ":"
                  THEN LET close == IndexFrom(s, "}", e + 2)
                       IN  IF close > e + 2
                           THEN [ok |-> TRUE, name |-> name, end |-> close]
                           ELSE [ok |-> FALSE]
             ELSE [ok |-> FALSE]

\* RE_FMT_ARG.captures_iter(s): the names of the leftmost non-overlapping matches
RECURSIVE CapturesFrom(_, _)
CapturesFrom(s, i) ==
    IF i > Len(s) THEN <<>>
    ELSE LET m == MatchAt(s, i)
         IN  IF m.ok THEN <<m.name>> \o CapturesFrom(s, m.end + 1)
             ELSE CapturesFrom(s, i + 1)

captures_iter(s) == CapturesFrom(s, 1)

(***************************************************************************)
(* format!: the format string is parsed into pieces; `{{` and `}}` are     *)
(* escapes, `{name}` and `{name:spec}` are named arguments.  Of the format *)
(* specs only `>N` and `<N` (alignment and a one-digit width) are          *)
(* modelled; the templates of the model use no other.                      *)
(***************************************************************************)

Lit(c) == [kind |-> "lit", ch |-> c, name |-> <<>>, align |-> "", width |-> 0]
Hole(n, a, w) == [kind |-> "arg", ch |-> "", name |-> n, align |-> a, width |-> w]

DigitValue(c) == CHOOSE n \in 0..9 : ToString(n) = c

\* the spec between `:` and `}`: [ok, align, width]
ParseSpec(sp) ==
    IF Len(sp) = 0 THEN [ok |-> TRUE, align |-> "", width |-> 0]
    ELSE IF Len(sp) = 2 /\ sp[1] \in {"<", ">"} /\ sp[2] \in Digits
         THEN [ok |-> TRUE, align |-> sp[1], width |-> DigitValue(sp[2])]
    ELSE [ok |-> FALSE, align |-> "", width |-> 0]

\* the pieces of a format string from position i on: [ok, pieces]
RECURSIVE ParseFrom(_, _)
ParseFrom(s, i) ==
    IF i > Len(s) THEN [ok |-> TRUE, pieces |-> <<>>]
    ELSE IF s[i] = "{" THEN
        IF i + 1 <= Len(s) /\ s[i + 1] = "{"
        THEN LET rest == ParseFrom(s, i + 2)
             IN  [ok |-> rest.ok, pieces |-> <<Lit("{")>> \o rest.pieces]
        ELSE LET close == IndexFrom(s, "}", i + 1)
                 colon == IndexFrom(s, ":", i + 1)
                 nameEnd == IF colon # 0 /\ colon < close THEN colon - 1 ELSE close - 1
                 name == SubSeq(s, i + 1, nameEnd)
                 spec == IF colon # 0 /\ colon < close
                         THEN ParseSpec(SubSeq(s, colon + 1, close - 1))
                         ELSE ParseSpec(<<>>)
             IN  IF close = 0 \/ ~IsIdent(name) \/ ~spec.ok
                 THEN [ok |-> FALSE, pieces |-> <<>>]
                 ELSE LET rest == ParseFrom(s, close + 1)
                      IN  [ok |-> rest.ok,
                           pieces |-> <<Hole(name, spec.align, spec.width)>> \o rest.pieces]
    ELSE IF s[i] = "}" THEN
        IF i + 1 <= Len(s) /\ s[i + 1] = "}"
        THEN LET rest == ParseFrom(s, i + 2)
             IN  [ok |-> rest.ok, pieces |-> <<Lit("}")>> \o rest.pieces]
        ELSE [ok |-> FALSE, pieces |-> <<>>]
    ELSE LET rest == ParseFrom(s, i + 1)
         IN  [ok |-> rest.ok, pieces |-> <<Lit(s[i])>> \o rest.pieces]

ParseFormat(s) == ParseFrom(s, 1)

Spaces(n) == [i \in 1..n |-> " "]

\* a value written with its spec ignored
PadIgnored(v, align, width) == v

\* a value written under a spec: padded with spaces up to the width
Pad(v, align, width) ==
    IF Len(v) >= width THEN v
    ELSE IF align = ">" THEN Spaces(width - Len(v)) \o v
    ELSE v \o Spaces(width - Len(v))

\* the string the pieces write, the named arguments taking their values from env
RECURSIVE WritePieces(_, _)
WritePieces(pieces, env) ==
    IF pieces = <<>> THEN <<>>
    ELSE LET p == Head(pieces)
         IN  (IF p.kind = "lit" THEN <<p.ch>> ELSE Pad(env[p.name], p.align, p.width))
             \o WritePieces(Tail(pieces), env)

HoleNames(pieces) == {pieces[i].name : i \in {j \in 1..Len(pieces) : pieces[j].kind = "arg"}}

(***************************************************************************)
(* The syntax tree handed to the macro                                     *)
(*                                                                         *)
(* An attribute is its path (`name`, or `retrofit::name` when qualified),  *)
(* whether its arguments parse as the macro expects them (ok), and the     *)
(* parsed arguments: a path template, `ident = expr` bindings, or          *)
(* `name = "value"` headers.                                               *)
(***************************************************************************)

Attr(n, q, k, p, a, h) ==
    [name |-> n, qualified |-> q, ok |-> k, path |-> p, args |-> a, headers |-> h]

\* syn::Path::is_ident: a path of the single segment n
is_ident(attr, n) == ~attr.qualified /\ attr.name = n

\* attr.path == parse_quote! { retrofit::n }
is_retrofit_path(attr, n) == attr.qualified /\ attr.name = n

\* the expressions the model's bindings use: a variable or a string literal
Var(n) == [kind |-> "var", name |-> n, val |-> <<>>]
Str(v) == [kind |-> "lit", name |-> <<>>, val |-> v]
\* no expression: the `ident` alone of request.rs' Arg, or a call such as `text()`
NoExpr == [kind |-> "none", name |-> <<>>, val |-> <<>>]
Arg(n, e) == [ident |-> n, expr |-> e]
Header(n, v) == [name |-> n, value |-> v]

Ok(v) == [ok |-> TRUE, val |-> v, err |-> "", ident |-> ""]
Err(e, id) == [ok |-> FALSE, val |-> <<>>, err |-> e, ident |-> id]

RECURSIVE Flatten(_)
Flatten(ss) == IF ss = <<>> THEN <<>> ELSE Head(ss) \o Flatten(Tail(ss))

\* extract_args: the bindings of every `args` attribute, in order
extract_args(attrs) ==
    LET sel == SelectSeq(attrs, LAMBDA a : is_ident(a, "args"))
    IN  IF \E i \in 1..Len(sel) : ~sel[i].ok
        THEN Err("parse args", "")
        ELSE Ok(Flatten([i \in 1..Len(sel) |-> sel[i].args]))

\* the verb of the branch of Request::extract that an attribute takes
VerbOf(attr) ==
    IF is_ident(attr, "get") \/ is_retrofit_path(attr, "get") THEN "GET"
    ELSE IF is_ident(attr, "head") \/ is_retrofit_path(attr, "head") THEN "HEAD"
    ELSE IF is_ident(attr, "patch") \/ is_retrofit_path(attr, "patch") THEN "PATCH"
    ELSE IF is_ident(attr, "post") \/ is_retrofit_path(attr, "post") THEN "POST"
    ELSE IF is_ident(attr, "put") \/ is_retrofit_path(attr, "put") THEN "PUT"
    ELSE IF is_ident(attr, "delete") \/ is_retrofit_path(attr, "delete") THEN "DELETE"
    ELSE "none"

\* the message of the error, without its quoting and the method's name
ExpectedRequest == "expected get, post or other request for the method"

\* Request::extract of service.rs: the first attribute that names a verb decides
Request_extract(method) ==
    LET args == extract_args(method.attrs)
        hits == {i \in 1..Len(method.attrs) : VerbOf(method.attrs[i]) # "none"}
    IN  IF ~args.ok THEN args
        ELSE IF hits = {} THEN Err(ExpectedRequest, method.ident)
        ELSE LET attr == method.attrs[CHOOSE i \in hits : \A j \in hits : i <= j]
             IN  IF attr.ok
                 THEN Ok([method |-> VerbOf(attr), path |-> attr.path, args |-> args.val])
                 ELSE Err("parse path", "")

\* extract_headers: the headers of the first attribute the closure accepts
extract_headers(name, attrs) ==
    LET hits == {i \in 1..Len(attrs) :
                    is_ident(attrs[i], name) \/ is_retrofit_path(attrs[i], "default_headers")}
    IN  IF hits = {} THEN Ok(<<>>)
        ELSE LET attr == attrs[CHOOSE i \in hits : \A j \in hits : i <= j]
             IN  IF attr.ok THEN Ok(attr.headers) ELSE Err("parse headers", "")

\* Headers::extract (header.rs): the headers of every attribute called name or
\* retrofit::name, in order; nothing in service.rs calls it
Headers_extract(name, attrs) ==
    LET sel == SelectSeq(attrs, LAMBDA a : is_ident(a, name) \/ is_retrofit_path(a, name))
    IN  IF \E i \in 1..Len(sel) : ~sel[i].ok
        THEN Err("parse headers", "")
        ELSE Ok(Flatten([i \in 1..Len(sel) |-> sel[i].headers]))

\* response::extract (response.rs): the expression of the first `response` attribute;
\* nothing in service.rs calls it
response_extract(attrs) ==
    LET hits == {i \in 1..Len(attrs) :
                    is_ident(attrs[i], "response") \/ is_retrofit_path(attrs[i], "response")}
    IN  IF hits = {} THEN Ok(<<>>)
        ELSE LET attr == attrs[CHOOSE i \in hits : \A j \in hits : i <= j]
             IN  IF attr.ok THEN Ok(attr.args) ELSE Err("parse response", "")

\* CaseExt::to_dashed, on the lower-case identifiers the model uses
to_dashed(s) == [i \in 1..Len(s) |-> IF s[i] = "_" THEN "-" ELSE s[i]]

\* generate_header_map: one `headers.insert(name, value)` statement per header
generate_header_map(headers) ==
    [i \in 1..Len(headers) |->
        [name |-> to_dashed(headers[i].name), value |-> headers[i].value]]

(***************************************************************************)
(* Types and trait items                                                   *)
(***************************************************************************)

Type(h, a) == [head |-> h, args |-> a]
SelfError == Type("Self::Error", <<>>)
\* the empty type `()` and `String`
Unit == Type("()", <<>>)
StringTy == Type("String", <<>>)

\* a return type: none written (ReturnType::Default) or `-> ty`
NoOutput == [kind |-> "default", ty |-> Type("", <<>>)]
Output(ty) == [kind |-> "type", ty |-> ty]

IsMethod(it) == it.kind = "method"

\* a bound pushed whether or not the trait is bounded already
ensure_trait_bound_always(supertraits) ==
    Append(supertraits, [kind |-> "trait", path |-> "retrofit::Service"])

\* ensure_trait_bound
ensure_trait_bound(supertraits) ==
    LET bounded == \E i \in 1..Len(supertraits) :
                      /\ supertraits[i].kind = "trait"
                      /\ supertraits[i].path \in {"Service", "retrofit::Service"}
    IN  IF bounded THEN supertraits
        ELSE Append(supertraits, [kind |-> "trait", path |-> "retrofit::Service"])

\* ensure_method_return_result: `Result` alone is left, anything else is wrapped
ensure_method_return_result(items) ==
    [i \in 1..Len(items) |->
        LET it == items[i]
        IN  IF IsMethod(it) /\ ~it.default /\ it.output.kind = "type"
               /\ ~(it.output.ty.head = "Result" /\ it.output.ty.args = <<>>)
            THEN [it EXCEPT !.output = Output(Type("Result", <<it.output.ty, SelfError>>))]
            ELSE it]

(***************************************************************************)
(* generate_methods and service: the expansion of the macro                *)
(***************************************************************************)

HasIdent(args, n) == \E i \in 1..Len(args) : args[i].ident = n

\* the bindings handed to format!: the explicit ones, then `name = name` for every
\* capture of the path that no explicit binding names
FormatArgs(path, args) ==
    LET implicit == SelectSeq(captures_iter(path), LAMBDA n : ~HasIdent(args, n))
    IN  args \o [i \in 1..Len(implicit) |-> Arg(implicit[i], Var(implicit[i]))]

NoHeaders == [kind |-> "none", inserts |-> <<>>]

\* the `#headers` tokens of a generated method
MethodHeaders(method) ==
    LET headers == extract_headers("headers", method.attrs)
    IN  IF ~headers.ok THEN [kind |-> "error", inserts |-> <<>>]
        ELSE IF headers.val = <<>> THEN NoHeaders
        ELSE [kind |-> "map", inserts |-> generate_header_map(headers.val)]

\* the request method of the client that the generated body calls: self.client.get
ClientCall(req) == "GET"

\* the closure of generate_methods' map: the implementation of one method
GenerateMethod(method) ==
    LET req == Request_extract(method)
    IN  IF ~req.ok THEN [ok |-> FALSE, err |-> req.err, ident |-> req.ident]
        ELSE IF \E i \in 1..Len(captures_iter(req.val.path)) :
                    ~IsIdent(captures_iter(req.val.path)[i])
        THEN [ok |-> FALSE, err |-> "Ident::new", ident |-> method.ident]
        ELSE [ok |-> TRUE, err |-> "", ident |-> method.ident,
              sig |-> [ident |-> method.ident, inputs |-> method.inputs,
                       output |-> method.output],
              path |-> req.val.path,
              args |-> FormatArgs(req.val.path, req.val.args),
              headers |-> MethodHeaders(method),
              verb |-> ClientCall(req.val)]

\* a generate_methods that leaves out the methods Request::extract rejects
generate_methods_skipping(items) ==
    LET ms == SelectSeq(items, LAMBDA it : IsMethod(it) /\ ~it.default /\ GenerateMethod(it).ok)
    IN  [ok |-> TRUE, methods |-> [i \in 1..Len(ms) |-> GenerateMethod(ms[i])],
         err |-> "", ident |-> ""]

\* a generate_methods that implements the methods with a default body too
generate_methods_with_defaults(items) ==
    LET ms == SelectSeq(items, LAMBDA it : IsMethod(it))
        gen == [i \in 1..Len(ms) |-> GenerateMethod(ms[i])]
        bad == {i \in 1..Len(gen) : ~gen[i].ok}
    IN  IF bad = {} THEN [ok |-> TRUE, methods |-> gen, err |-> "", ident |-> ""]
        ELSE LET g == gen[CHOOSE i \in bad : \A j \in bad : i <= j]
             IN  [ok |-> FALSE, methods |-> <<>>, err |-> g.err, ident |-> g.ident]

\* generate_methods: one implementation per method without a default body; the
\* `expect("request")` panics at the first method Request::extract rejects
generate_methods(items) ==
    LET ms == SelectSeq(items, LAMBDA it : IsMethod(it) /\ ~it.default)
        gen == [i \in 1..Len(ms) |-> GenerateMethod(ms[i])]
        bad == {i \in 1..Len(gen) : ~gen[i].ok}
    IN  IF bad = {} THEN [ok |-> TRUE, methods |-> gen, err |-> "", ident |-> ""]
        ELSE LET g == gen[CHOOSE i \in bad : \A j \in bad : i <= j]
             IN  [ok |-> FALSE, methods |-> <<>>, err |-> g.err, ident |-> g.ident]

NotExpanded ==
    [state |-> "none", err |-> "", ident |-> "", methods |-> <<>>, default_headers |-> <<>>]

\* service: the expansion, a compile error (Err) or a panic of the macro; the
\* arguments of the attribute (`_attr`) are not read
service(attr_, it) ==
    LET default_headers == extract_headers("default_headers", it.attrs)
        methods == generate_methods(ensure_method_return_result(it.items))
    IN  IF ~default_headers.ok
        THEN [NotExpanded EXCEPT !.state = "error", !.err = default_headers.err]
        ELSE IF ~methods.ok
        THEN [NotExpanded EXCEPT !.state = "panic", !.err = methods.err,
                                 !.ident = methods.ident]
        ELSE [NotExpanded EXCEPT !.state = "ok", !.methods = methods.methods,
                  !.default_headers = generate_header_map(default_headers.val)]

\* the trait as the expansion emits it again
ServiceItem(it) ==
    [it EXCEPT !.supertraits = ensure_trait_bound(it.supertraits),
               !.items = ensure_method_return_result(it.items)]

(***************************************************************************)
(* The compiler on the expansion: the `format!` call of each generated     *)
(* method must parse, name each argument once, use every argument, and     *)
(* every variable of a binding must be in scope.                           *)
(***************************************************************************)

base_url == <<"b", "a", "s", "e", "_", "u", "r", "l">>
APP_USER_AGENT == <<"A", "P", "P", "_", "U", "S", "E", "R", "_", "A", "G", "E", "N", "T">>

\* concat!("{base_url}", #path)
FormatString(path) == <<"{">> \o base_url \o <<"}">> \o path

NamedArgs(g) == <<base_url>> \o [i \in 1..Len(g.args) |-> g.args[i].ident]

SeqToSet(s) == {s[i] : i \in 1..Len(s)}

\* the names a generated method body can refer to: the method's parameters, the
\* constants visible where the trait is written, and the static of the constructor
Scope(g, cs) == SeqToSet(g.sig.inputs) \cup DOMAIN cs \cup {APP_USER_AGENT}

\* the body ends in `res.json()` and uses `?`: the method must return a Result
ReturnsResult(g) == g.sig.output.kind = "type" /\ g.sig.output.ty.head = "Result"

MethodCompiles(g, cs) ==
    LET fmt == ParseFormat(FormatString(g.path))
        named == NamedArgs(g)
    IN  /\ g.headers.kind # "error"
        /\ ReturnsResult(g)
        /\ fmt.ok
        /\ \A i, j \in 1..Len(named) : named[i] = named[j] => i = j
        /\ SeqToSet(named) = HoleNames(fmt.pieces)
        /\ \A i \in 1..Len(g.args) :
              g.args[i].expr.kind = "var" => g.args[i].expr.name \in Scope(g, cs)

Compiles(ex, cs) ==
    /\ ex.state = "ok"
    /\ \A i \in 1..Len(ex.methods) : MethodCompiles(ex.methods[i], cs)

(***************************************************************************)
(* The generated code at run time                                          *)
(*                                                                         *)
(* A header map is the sequence of its (name, value) entries.              *)
(***************************************************************************)

HasName(map, n) == \E i \in 1..Len(map) : map[i].name = n

FirstIndex(map, n) == CHOOSE i \in 1..Len(map) : map[i].name = n /\ \A j \in 1..(i - 1) : map[j].name # n

\* HeaderMap::insert: the value replaces every value the name already has
HeaderMap_insert(map, n, v) ==
    IF HasName(map, n)
    THEN LET k == FirstIndex(map, n)
             kept == {i \in 1..Len(map) : i = k \/ map[i].name # n}
             idx == [j \in 1..Cardinality(kept) |->
                        CHOOSE i \in kept : Cardinality({x \in kept : x < i}) = j - 1]
         IN  [j \in 1..Cardinality(kept) |->
                 IF idx[j] = k THEN Header(n, v) ELSE map[idx[j]]]
    ELSE Append(map, Header(n, v))

\* { let mut headers = HeaderMap::new(); headers.insert(..); ..; headers }
RECURSIVE InsertAll(_, _)
InsertAll(map, inserts) ==
    IF inserts = <<>> THEN map
    ELSE InsertAll(HeaderMap_insert(map, Head(inserts).name, Head(inserts).value),
                   Tail(inserts))

HeaderMapOf(inserts) == InsertAll(<<>>, inserts)

\* RequestBuilder::headers: the map's entries replace the request's of the same name
RequestBuilder_headers(headers, map) == InsertAll(headers, map)

UserAgentName == <<"u", "s", "e", "r", "-", "a", "g", "e", "n", "t">>
\* concat!(env!("CARGO_PKG_NAME"), "/", env!("CARGO_PKG_VERSION"))
AppUserAgentValue == <<"p", "/", "1">>

\* Client::builder().user_agent(APP_USER_AGENT).default_headers(map)
ClientBuilder_headers(map) ==
    InsertAll(HeaderMap_insert(<<>>, UserAgentName, AppUserAgentValue), map)

\* Client::execute: a default header is added when the request has none of its name
RECURSIVE Client_execute(_, _)
Client_execute(headers, defaults) ==
    IF defaults = <<>> THEN headers
    ELSE Client_execute(
            IF HasName(headers, Head(defaults).name) THEN headers
            ELSE Append(headers, Head(defaults)),
            Tail(defaults))

NoInstance == [state |-> "none", client |-> <<>>, base_url |-> <<>>, builds |-> 0]

\* a constructor that builds again when the builder has failed
ConstructorRetrying(ex, url, buildOk) ==
    [state |-> "built", client |-> ClientBuilder_headers(HeaderMapOf(ex.default_headers)),
     base_url |-> url, builds |-> IF buildOk THEN 1 ELSE 2]

\* the constructor `fn_name(base_url)`: the client is built in it, and `expect`
\* panics when the builder fails
Constructor(ex, url, buildOk) ==
    IF buildOk
    THEN [state |-> "built", client |-> ClientBuilder_headers(HeaderMapOf(ex.default_headers)),
          base_url |-> url, builds |-> 1]
    ELSE [state |-> "panicked", client |-> <<>>, base_url |-> <<>>, builds |-> 1]

\* a method that builds the client again when it is called
SelfRebuilt(inst) == [inst EXCEPT !.builds = @ + 1]

\* a method that forgets the base URL of the instance when it is called
SelfRebased(inst) == [inst EXCEPT !.base_url = <<>>]

\* a generated method takes `&self`: the instance after a call is the instance before
SelfAfterCall(inst) == inst

Eval(expr, env) == IF expr.kind = "lit" THEN expr.val ELSE env[expr.name]

\* the values in scope in a generated method body: the static, the constants, and
\* the parameters, which shadow them
ScopeEnv(g, cs, params) ==
    [n \in Scope(g, cs) |->
        IF n \in DOMAIN params THEN params[n]
        ELSE IF n \in DOMAIN cs THEN cs[n]
        ELSE AppUserAgentValue]

\* a URL formatted from the path alone, the base URL forgotten
FormatUrlWithoutBase(g, inst, env) ==
    LET named == [n \in SeqToSet(NamedArgs(g)) |->
                    IF n = base_url THEN inst.base_url
                    ELSE Eval(g.args[CHOOSE i \in 1..Len(g.args) : g.args[i].ident = n].expr,
                              env)]
    IN  WritePieces(ParseFormat(g.path).pieces, named)

\* let url = format!(concat!("{base_url}", #path), base_url = self.base_url, #args)
FormatUrl(g, inst, env) ==
    LET named == [n \in SeqToSet(NamedArgs(g)) |->
                    IF n = base_url THEN inst.base_url
                    ELSE Eval(g.args[CHOOSE i \in 1..Len(g.args) : g.args[i].ident = n].expr,
                              env)]
    IN  WritePieces(ParseFormat(FormatString(g.path)).pieces, named)

\* a request builder that keeps state between calls: the URL is marked when
\* another call is in flight
BuildRequestShared(g, inst, env) ==
    [verb |-> g.verb,
     url |-> FormatUrl(g, inst, env)
                \o (IF \E c \in DOMAIN callers : callers[c].pc # "idle"
                    THEN <<"#">> ELSE <<>>),
     body |-> <<>>,
     headers |-> IF g.headers.kind = "map"
                 THEN RequestBuilder_headers(<<>>, HeaderMapOf(g.headers.inserts))
                 ELSE <<>>]

\* let mut req = self.client.get(&url); #headers
\* no body is ever set on the builder: the body stays empty
BuildRequest(g, inst, env) ==
    [verb |-> g.verb,
     url |-> FormatUrl(g, inst, env),
     body |-> <<>>,
     headers |-> IF g.headers.kind = "map"
                 THEN RequestBuilder_headers(<<>>, HeaderMapOf(g.headers.inserts))
                 ELSE <<>>]

\* what the transport sends for a request of the client
Wire(req, inst) == [req EXCEPT !.headers = Client_execute(req.headers, inst.client)]

(***************************************************************************)
(* Responses: `send` gives Err when the transport fails and Ok(response)   *)
(* for a response of any status; `json` reads the body and deserializes it *)
(* into the type the method returns.                                       *)
(***************************************************************************)

NoResponse == [sent |-> FALSE, status |-> 0, body |-> <<>>]
Response(st, b) == [sent |-> TRUE, status |-> st, body |-> b]

\* StatusCode::is_success
is_success(st) == 200 <= st /\ st < 300

\* the JSON value a body is: null, a number, a string, or no JSON at all
JsonKind(b) ==
    IF b = <<"n", "u", "l", "l">> THEN "null"
    ELSE IF Len(b) > 0 /\ \A i \in 1..Len(b) : b[i] \in Digits THEN "number"
    ELSE IF /\ Len(b) >= 2 /\ b[1] = "\"" /\ b[Len(b)] = "\""
            /\ \A i \in 2..(Len(b) - 1) : b[i] # "\""
         THEN "string"
    ELSE "invalid"

\* serde_json::from_slice::<ty>: `()` from null, String from a string, and T, which
\* stands for a type that deserializes from a number, from a number
from_json(ty, b) ==
    IF ty.head = "()" /\ JsonKind(b) = "null" THEN Ok(<<>>)
    ELSE IF ty.head = "String" /\ JsonKind(b) = "string" THEN Ok(SubSeq(b, 2, Len(b) - 1))
    ELSE IF ty.head = "T" /\ JsonKind(b) = "number" THEN Ok(b)
    ELSE Err("decode", "")

\* a decode that takes the body as it is, whatever it is
Response_unparsed(res, ty) == Ok(res.body)

\* Response::json: the status is not looked at
Response_json(res, ty) == from_json(ty, res.body)

\* the type `res.json()` is inferred to decode into: X of `Result<X, Self::Error>`
\* a `Result` written without arguments is an alias of the crate; it is taken to
\* stand for Result<T, Self::Error>
DecodedType(g) ==
    IF g.sig.output.ty.args = <<>> THEN Type("T", <<>>) ELSE g.sig.output.ty.args[1]

(***************************************************************************)
(* The service definitions the model compiles                              *)
(***************************************************************************)

o == <<"o">>
r == <<"r">>
V == <<"V">>

PathLit == <<"/", "a">>                                 \* "/a"
PathO == <<"/", "{", "o", "}">>                         \* "/{o}"
PathOR == <<"/", "{", "o", "}", "/", "{", "r", "}">>    \* "/{o}/{r}"
PathOO == <<"/", "{", "o", "}", "/", "{", "o", "}">>    \* "/{o}/{o}"
PathSpec == <<"/", "{", "o", ":", ">", "3", "}">>       \* "/{o:>3}"
PathEsc == <<"/", "{", "o", "}", "{", "{">>             \* "/{o}{{"
PathEscName == <<"/", "{", "{", "o", "}", "}">>         \* "/{{o}}"
PathV == <<"/", "{", "V", "}">>                         \* "/{V}"
PathStatic == <<"/", "{">> \o APP_USER_AGENT \o <<"}">> \* "/{APP_USER_AGENT}"

Paths == {PathLit, PathO, PathOR, PathOO, PathSpec, PathEsc, PathEscName, PathV, PathStatic}

VerbNames == {"get", "head", "patch", "post", "put", "delete", "trace", "options", "http"}

\* #[verb("path")], #[retrofit::verb("path")]; for http, #[http(custom("path"))]
VerbAttr(n, q, p) == Attr(n, q, TRUE, p, <<>>, <<>>)
\* #[args(ident = expr, ..)]
ArgsAttr(q, a) == Attr("args", q, TRUE, <<>>, a, <<>>)
\* #[headers(name = "value", ..)], #[default_headers(..)]
HeadersAttr(n, q, h) == Attr(n, q, TRUE, <<>>, <<>>, h)
\* an attribute whose arguments do not parse
Malformed(n) == Attr(n, FALSE, FALSE, <<>>, <<>>, <<>>)
\* #[response(text())]: the decode strategy, passed through by response.rs
ResponseAttr(e) == Attr("response", FALSE, TRUE, <<>>, <<Arg(e, NoExpr)>>, <<>>)
\* #[request(query)]: the encoding and the argument it takes
RequestAttr(e) == Attr("request", FALSE, TRUE, <<>>, <<Arg(e, NoExpr)>>, <<>>)

T == Type("T", <<>>)

Method(id, attrs, inputs, default) ==
    [kind |-> "method", ident |-> id, attrs |-> attrs, inputs |-> inputs,
     output |-> Output(T), default |-> default]

\* a method without default body that declares the return type `out`
Returning(id, attrs, inputs, out) ==
    [kind |-> "method", ident |-> id, attrs |-> attrs, inputs |-> inputs,
     output |-> out, default |-> FALSE]

Trait(attrs, items) == [attrs |-> attrs, supertraits |-> <<>>, items |-> items]

Crate(it, cs) == [item |-> it, consts |-> cs]

NoConsts == <<>>
ConstV == (V :> <<"1">>)

ArgsChoices ==
    {<<>>,
     <<ArgsAttr(FALSE, <<Arg(o, Var(r))>>)>>,
     <<ArgsAttr(FALSE, <<Arg(o, Str(<<"x">>))>>)>>,
     <<ArgsAttr(TRUE, <<Arg(o, Var(r))>>)>>}

InputChoices == {<<>>, <<o>>, <<o, r>>}

\* one method, one verb, every verb name, with and without the crate's path
VerbCrates ==
    {Crate(Trait(<<>>, <<Method("m", <<VerbAttr(n, q, PathLit)>>, <<>>, FALSE)>>), NoConsts) :
        n \in VerbNames, q \in BOOLEAN}

\* the combinations of a path, `args` attributes and a parameter list that differ
\* in what they exercise: the parameter r is there when the path or a binding names
\* it, and the `retrofit::args` attribute is tried on the path "/{o}"
Exercised(p, a, i) ==
    /\ i = <<o, r>> =>
          \/ p = PathOR
          \/ a # <<>> /\ a[1].args[1].expr = Var(r)
    /\ (a # <<>> /\ a[1].qualified) => p = PathO

\* one `get` method over the paths, parameter lists and `args` attributes
PathCrates ==
    {Crate(Trait(<<>>, <<Method("m", <<VerbAttr("get", FALSE, p)>> \o a, i, FALSE)>>),
           IF p = PathV THEN ConstV ELSE NoConsts) :
        <<p, a, i>> \in {x \in Paths \X ArgsChoices \X InputChoices :
                            Exercised(x[1], x[2], x[3])}}

h1 == <<"1">>
h2 == <<"2">>
h3 == <<"3">>
h4 == <<"4">>
na == <<"a">>
nb == <<"b">>
ncc == <<"c", "_", "c">>

DefaultHeaderChoices ==
    {<<>>,
     <<HeadersAttr("default_headers", FALSE, <<Header(na, h1)>>)>>,
     <<HeadersAttr("default_headers", FALSE, <<Header(na, h1), Header(na, h2)>>)>>,
     <<HeadersAttr("default_headers", FALSE, <<Header(na, h1), Header(nb, h2)>>)>>,
     <<HeadersAttr("default_headers", TRUE, <<Header(ncc, h1)>>)>>,
     <<Malformed("default_headers")>>}

MethodHeaderChoices ==
    {<<>>,
     <<HeadersAttr("headers", FALSE, <<Header(na, h3)>>)>>,
     <<HeadersAttr("headers", FALSE, <<Header(na, h3), Header(na, h4)>>)>>,
     <<HeadersAttr("headers", FALSE, <<Header(nb, h3), Header(ncc, h4), Header(nb, h4)>>)>>,
     <<HeadersAttr("headers", TRUE, <<Header(na, h3)>>)>>,
     <<HeadersAttr("headers", TRUE, <<Header(ncc, h3)>>)>>,
     <<Malformed("headers")>>}

\* one `get` method over the header attributes of the trait and of the method
HeaderCrates ==
    {Crate(Trait(d, <<Method("m", <<VerbAttr("get", FALSE, PathLit)>> \o h, <<>>, FALSE)>>),
           NoConsts) :
        d \in DefaultHeaderChoices, h \in MethodHeaderChoices}

Get(p) == VerbAttr("get", FALSE, p)
Post(p) == VerbAttr("post", FALSE, p)

\* methods without a verb, with two verbs, with a default body, with malformed
\* attributes, and traits of two items
OtherCrates ==
    {Crate(Trait(<<>>, items), NoConsts) : items \in
        {<<Method("m", <<>>, <<>>, FALSE)>>,
         <<Method("m", <<ArgsAttr(FALSE, <<Arg(o, Str(<<"x">>))>>)>>, <<>>, FALSE)>>,
         <<Method("m", <<HeadersAttr("headers", FALSE, <<Header(na, h1)>>)>>, <<>>, FALSE)>>,
         <<Method("m", <<Malformed("args")>>, <<>>, FALSE)>>,
         <<Method("m", <<Get(PathLit), Malformed("args")>>, <<>>, FALSE)>>,
         <<Method("m", <<Malformed("get")>>, <<>>, FALSE)>>,
         <<Method("m", <<Malformed("get"), Post(PathLit)>>, <<>>, FALSE)>>,
         <<Method("m", <<Get(PathLit), Post(PathO)>>, <<o>>, FALSE)>>,
         <<Method("m", <<Post(PathLit), Get(PathO)>>, <<o>>, FALSE)>>,
         <<Method("m", <<VerbAttr("trace", FALSE, PathLit), Get(PathO)>>, <<o>>, FALSE)>>,
         <<Method("m", <<>>, <<>>, TRUE)>>,
         <<Method("m", <<Get(PathO)>>, <<>>, TRUE)>>,
         <<Method("m", <<>>, <<>>, TRUE), Method("n", <<Get(PathO)>>, <<o>>, FALSE)>>,
         <<Method("m", <<Get(PathO)>>, <<o>>, FALSE), Method("n", <<Post(PathLit)>>, <<>>, FALSE)>>,
         <<Method("m", <<Get(PathO)>>, <<o>>, FALSE), Method("n", <<>>, <<>>, FALSE)>>,
         <<Method("m", <<>>, <<>>, FALSE), Method("n", <<Malformed("args")>>, <<>>, FALSE)>>}}

text == <<"t", "e", "x", "t">>
query == <<"q", "u", "e", "r", "y">>

\* one `get` method over the return types, with and without `#[response(text())]`
DecodeCrates ==
    {Crate(Trait(<<>>, <<Returning("m", <<Get(PathLit)>> \o d, <<>>, out)>>), NoConsts) :
        d \in {<<>>, <<ResponseAttr(text)>>},
        out \in {Output(T), Output(Unit), Output(StringTy), NoOutput}}

\* #[get("/a")] #[request(query)] fn m(&self, query: &Q) -> T
QueryCrates ==
    {Crate(Trait(<<>>, <<Returning("m", <<Get(PathLit), RequestAttr(query)>>, <<query>>,
                                   Output(T))>>), NoConsts)}

PathSpec1 == <<"/", "{", "o", ":", ">", "1", "}">>      \* "/{o:>1}"

\* #[get("/{o:>1}")] fn m(&self, o: &str) -> T: a width no value is shorter than
SpecCrates ==
    {Crate(Trait(<<>>, <<Method("m", <<Get(PathSpec1)>>, <<o>>, FALSE)>>), NoConsts)}

user_agent == <<"u", "s", "e", "r", "_", "a", "g", "e", "n", "t">>
gh == <<"g", "h", "/", "1">>

\* #[client(user_agent = "gh/1")] on the trait
ClientAttr(v) == Attr("client", FALSE, TRUE, <<>>, <<Arg(user_agent, Str(v))>>, <<>>)

\* #[service] #[client(user_agent = "gh/1")] trait { #[get("/a")] fn m(&self) -> T }
ClientCrates ==
    {Crate(Trait(<<ClientAttr(gh)>>, <<Method("m", <<Get(PathLit)>>, <<>>, FALSE)>>), NoConsts)}

E == Type("E", <<>>)

\* one `get` method declared `-> Result`, `-> Result<T>` and `-> Result<T, E>`
ResultCrates ==
    {Crate(Trait(<<>>, <<Returning("m", <<Get(PathLit)>>, <<>>, Output(Type("Result", a)))>>),
           NoConsts) :
        a \in {<<>>, <<T>>, <<T, E>>}}

\* a trait with two `default_headers` attributes and a method with two `headers`
\* attributes
MultiHeaderCrates ==
    {Crate(Trait(<<HeadersAttr("default_headers", FALSE, <<Header(na, h1)>>),
                   HeadersAttr("default_headers", FALSE, <<Header(nb, h2)>>)>>,
                 <<Method("m", <<Get(PathLit),
                                 HeadersAttr("headers", FALSE, <<Header(na, h3)>>),
                                 HeadersAttr("headers", FALSE, <<Header(nb, h4)>>)>>,
                          <<>>, FALSE)>>),
           NoConsts)}

\* a supertrait bound: a trait path, or a lifetime
TraitBound(path) == [kind |-> "trait", path |-> path]
Lifetime(name) == [kind |-> "lifetime", path |-> name]

SupertraitChoices ==
    {<<TraitBound("Service")>>,
     <<TraitBound("retrofit::Service")>>,
     <<TraitBound("Send")>>,
     <<Lifetime("'static")>>,
     <<TraitBound("Send"), TraitBound("Service")>>,
     <<TraitBound("retrofit::Service"), TraitBound("Send")>>,
     <<TraitBound("Service"), TraitBound("retrofit::Service")>>}

\* trait S: supertraits { #[get("/a")] fn m(&self) -> T }
BoundCrates ==
    {Crate([Trait(<<>>, <<Method("m", <<Get(PathLit)>>, <<>>, FALSE)>>)
               EXCEPT !.supertraits = s], NoConsts) :
        s \in SupertraitChoices}

\* a trait item that is no method: an associated const or type
OtherItem(kind, id) ==
    [kind |-> kind, ident |-> id, attrs |-> <<>>, inputs |-> <<>>, output |-> NoOutput,
     default |-> FALSE]

\* trait S { const K; #[get("/a")] fn m(&self) -> T; type A;
\*           #[get("/a")] fn d(&self) -> T { .. } #[post("/a")] fn n(&self) -> T; }
ItemCrates ==
    {Crate(Trait(<<>>, <<OtherItem("const", "K"),
                         Method("m", <<Get(PathLit)>>, <<>>, FALSE),
                         OtherItem("type", "A"),
                         Method("d", <<Get(PathLit)>>, <<>>, TRUE),
                         Method("n", <<Post(PathLit)>>, <<>>, FALSE)>>), NoConsts)}

json == <<"j", "s", "o", "n">>
data == <<"d", "a", "t", "a">>

\* #[request(e = v)]
RequestWith(e, v) == Attr("request", FALSE, TRUE, <<>>, <<Arg(e, Var(v))>>, <<>>)

\* #[post("/a")] #[request(json = data)] fn m(&self, data: &D) -> T
JsonCrates ==
    {Crate(Trait(<<>>, <<Returning("m", <<Post(PathLit), RequestWith(json, data)>>, <<data>>,
                                   Output(T))>>), NoConsts)}

Crates ==
    VerbCrates \cup PathCrates \cup HeaderCrates \cup OtherCrates \cup DecodeCrates
        \cup QueryCrates \cup JsonCrates \cup SpecCrates \cup ClientCrates
        \cup ResultCrates \cup MultiHeaderCrates \cup BoundCrates \cup ItemCrates

\* #[service(base_url = "...")]: the arguments of the attribute
ServiceAttrs == {[base_url |-> <<"h">>]}

(***************************************************************************)
(* The state machine: the macro expands the trait, the compiler checks the *)
(* expansion, the program calls the constructor, and callers call the      *)
(* methods of the instance.                                                *)
(***************************************************************************)

MaxCallers == 2

Callers == 1..MaxCallers

BaseUrls == {<<"h">>, <<"k">>}

\* the string forms of the values a parameter is called with; `query` is called
\* with the pairs [("f", "a"), ("f", "b")], written key, value, key, value
ParamValues(n) ==
    IF n = o THEN {<<"a">>, <<"b", "c">>}
    ELSE IF n = query THEN {<<"f", "a", "f", "b">>}
    ELSE {<<"d">>}

AllParamValues == UNION {ParamValues(n) : n \in {o, r, query}}

CallEnvs(inputs) ==
    {f \in [SeqToSet(inputs) -> AllParamValues] : \A n \in SeqToSet(inputs) : f[n] \in ParamValues(n)}

NoRequest == [verb |-> "", url |-> <<>>, body |-> <<>>, headers |-> <<>>]

NoResult == Err("none", "")

\* what `send` can give: a transport failure, or a response
TransportFailure == NoResponse
Responses == {Response(200, <<"1">>), Response(200, <<"x">>), Response(404, <<"1">>)}
Outcomes == {TransportFailure} \cup Responses

Idle == [pc |-> "idle", m |-> 0, env |-> <<>>, req |-> NoRequest, wire |-> NoRequest,
         sends |-> 0, decodes |-> 0, res |-> NoResponse, result |-> NoResult]

Init ==
    /\ service_attr \in ServiceAttrs
    /\ \E cr \in Crates : item = cr.item /\ consts = cr.consts
    /\ expanded = NotExpanded
    /\ rustc = "none"
    /\ instance = NoInstance
    /\ callers = [c \in Callers |-> Idle]

\* #[service] expands the trait
Service ==
    /\ expanded.state = "none"
    /\ expanded' = service(service_attr, item)
    /\ item' = IF expanded'.state = "ok" THEN ServiceItem(item) ELSE item
    /\ UNCHANGED <<service_attr, consts, rustc, instance, callers>>

\* the compiler accepts or rejects the crate with the expansion in it
Rustc ==
    /\ expanded.state # "none"
    /\ rustc = "none"
    /\ rustc' = IF Compiles(expanded, consts) THEN "ok" ELSE "error"
    /\ UNCHANGED <<service_attr, item, consts, expanded, instance, callers>>

\* the program calls the constructor
Construct(url, buildOk) ==
    /\ rustc = "ok"
    /\ instance.state = "none"
    /\ instance' = Constructor(expanded, url, buildOk)
    /\ UNCHANGED <<service_attr, item, consts, expanded, rustc, callers>>

\* a caller enters method m: the URL is formatted and the request built
CallBegin(c, m, env) ==
    /\ instance.state = "built"
    /\ callers[c].pc = "idle"
    /\ LET g == expanded.methods[m]
       IN  callers' = [callers EXCEPT ![c] =
               [Idle EXCEPT !.pc = "req", !.m = m, !.env = env,
                            !.req = BuildRequest(g, instance, ScopeEnv(g, consts, env))]]
    /\ instance' = SelfAfterCall(instance)
    /\ UNCHANGED <<service_attr, item, consts, expanded, rustc>>

\* a `send` whose failure is dropped: the method goes on to decode
SendSwallowing(c, outcome) ==
    /\ callers[c].pc = "req"
    /\ callers' = [callers EXCEPT ![c] =
           [@ EXCEPT !.wire = Wire(callers[c].req, instance),
                     !.sends = @ + 1,
                     !.pc = "sent",
                     !.res = outcome]]
    /\ UNCHANGED <<service_attr, item, consts, expanded, rustc, instance>>

\* let res = req.send()?: the transport fails and `?` returns the error, or the
\* transport answers and the method goes on with the response
Send(c, outcome) ==
    /\ callers[c].pc = "req"
    /\ callers' = [callers EXCEPT ![c] =
           [@ EXCEPT !.wire = Wire(callers[c].req, instance),
                     !.sends = @ + 1,
                     !.pc = IF outcome.sent THEN "sent" ELSE "done",
                     !.res = outcome,
                     !.result = IF outcome.sent THEN NoResult ELSE Err("send", "")]]
    /\ UNCHANGED <<service_attr, item, consts, expanded, rustc, instance>>

\* res.json()
Json(c) ==
    /\ callers[c].pc = "sent"
    /\ callers' = [callers EXCEPT ![c] =
           [@ EXCEPT !.pc = "done",
                     !.decodes = @ + 1,
                     !.result = Response_json(callers[c].res,
                                              DecodedType(expanded.methods[callers[c].m]))]]
    /\ UNCHANGED <<service_attr, item, consts, expanded, rustc, instance>>

\* the method returns its result to the caller
Return(c) ==
    /\ callers[c].pc = "done"
    /\ callers' = [callers EXCEPT ![c] = Idle]
    /\ UNCHANGED <<service_attr, item, consts, expanded, rustc, instance>>

Next ==
    \/ Service
    \/ Rustc
    \/ \E url \in BaseUrls, buildOk \in BOOLEAN : Construct(url, buildOk)
    \/ \E c \in Callers, m \in 1..Len(expanded.methods) :
          \E env \in CallEnvs(expanded.methods[m].sig.inputs) : CallBegin(c, m, env)
    \/ \E c \in Callers, outcome \in Outcomes : Send(c, outcome)
    \/ \E c \in Callers : Json(c)
    \/ \E c \in Callers : Return(c)

Spec == Init /\ [][Next]_vars

(***************************************************************************)
(* Properties                                                              *)
(***************************************************************************)

\* the declared method that generated method m implements
Declared(m) == SelectSeq(item.items, LAMBDA it : IsMethod(it) /\ ~it.default)[m]

InFlight(c) == callers[c].pc # "idle"
OnWire(c) == callers[c].pc \in {"sent", "done"}

\* the values the generated bindings of method g give the placeholders of its path
Bindings(g, c) ==
    [n \in {g.args[i].ident : i \in 1..Len(g.args)} |->
        Eval(g.args[CHOOSE i \in 1..Len(g.args) : g.args[i].ident = n].expr,
             ScopeEnv(g, consts, callers[c].env))]

StartsWith(s, i, t) == i + Len(t) - 1 <= Len(s) /\ SubSeq(s, i, i + Len(t) - 1) = t

Braced(n) == <<"{">> \o n \o <<"}">>

\* the template from position i on with every `{x}` of a bound x replaced by the
\* value of x, and every other character kept
RECURSIVE ReplacePlaceholders(_, _, _)
ReplacePlaceholders(t, i, binds) ==
    IF i > Len(t) THEN <<>>
    ELSE LET here == {n \in DOMAIN binds : StartsWith(t, i, Braced(n))}
         IN  IF here # {}
             THEN LET n == CHOOSE x \in here : TRUE
                  IN  binds[n] \o ReplacePlaceholders(t, i + Len(n) + 2, binds)
             ELSE <<t[i]>> \o ReplacePlaceholders(t, i + 1, binds)

\* as ReplacePlaceholders, and `{x:>N}` / `{x:<N}` replaced by the value of x padded
\* to N characters, and `{{` and `}}` replaced by `{` and `}`
RECURSIVE ReplaceFormatted(_, _, _)
ReplaceFormatted(t, i, binds) ==
    IF i > Len(t) THEN <<>>
    ELSE IF StartsWith(t, i, <<"{", "{">>)
         THEN <<"{">> \o ReplaceFormatted(t, i + 2, binds)
    ELSE IF StartsWith(t, i, <<"}", "}">>)
         THEN <<"}">> \o ReplaceFormatted(t, i + 2, binds)
    ELSE LET plain == {n \in DOMAIN binds : StartsWith(t, i, Braced(n))}
             spec == {n \in DOMAIN binds :
                        /\ StartsWith(t, i, <<"{">> \o n \o <<":">>)
                        /\ i + Len(n) + 4 <= Len(t)
                        /\ t[i + Len(n) + 2] \in {"<", ">"}
                        /\ t[i + Len(n) + 3] \in Digits
                        /\ t[i + Len(n) + 4] = "}"}
         IN  IF plain # {}
             THEN LET n == CHOOSE x \in plain : TRUE
                  IN  binds[n] \o ReplaceFormatted(t, i + Len(n) + 2, binds)
             ELSE IF spec # {}
             THEN LET n == CHOOSE x \in spec : TRUE
                      w == DigitValue(t[i + Len(n) + 3])
                      v == binds[n]
                      pad == [k \in 1..(IF w > Len(v) THEN w - Len(v) ELSE 0) |-> " "]
                  IN  (IF t[i + Len(n) + 2] = ">" THEN pad \o v ELSE v \o pad)
                      \o ReplaceFormatted(t, i + Len(n) + 5, binds)
             ELSE <<t[i]>> \o ReplaceFormatted(t, i + 1, binds)

HasPlaceholder(path) == captures_iter(path) # <<>>

\* C1 as stated: the URL of every request of a method whose path has placeholders
\* is the base URL followed by the path with every `{x}` replaced by the value bound
\* to x, and nothing else changed.
C1_UrlIsPathWithPlaceholdersReplaced ==
    \A c \in Callers :
        (InFlight(c) /\ HasPlaceholder(expanded.methods[callers[c].m].path)) =>
            LET g == expanded.methods[callers[c].m]
            IN  callers[c].req.url =
                    instance.base_url \o ReplacePlaceholders(g.path, 1, Bindings(g, c))

\* C1 as amended: the URL is the base URL followed by the path with every `{x}`
\* replaced by the value bound to x, every `{x:spec}` by that value padded as the
\* spec directs, and every doubled brace by a single brace; nothing else changes.
C1_UrlIsPathFormatted ==
    \A c \in Callers :
        (InFlight(c) /\ HasPlaceholder(expanded.methods[callers[c].m].path)) =>
            LET g == expanded.methods[callers[c].m]
            IN  callers[c].req.url =
                    instance.base_url \o ReplaceFormatted(g.path, 1, Bindings(g, c))

\* a request of a path with a placeholder, a format spec or an escaped brace
C1_Witness ==
    \E c \in Callers :
        /\ callers[c].pc = "req"
        /\ expanded.methods[callers[c].m].path \in {PathEsc, PathSpec}
        /\ callers[c].env[o] = <<"b", "c">>
        /\ callers[c].req.url \in {<<"k", "/", "b", "c", "{">>, <<"k", "/", " ", "b", "c">>}

Upper(n) ==
    CASE n = "get" -> "GET" [] n = "head" -> "HEAD" [] n = "patch" -> "PATCH"
      [] n = "post" -> "POST" [] n = "put" -> "PUT" [] n = "delete" -> "DELETE"
      [] n = "trace" -> "TRACE" [] n = "options" -> "OPTIONS" [] n = "http" -> "CUSTOM"

\* the verbs a declared method is annotated with
DeclaredVerbs(method) ==
    {Upper(method.attrs[i].name) :
        i \in {j \in 1..Len(method.attrs) : method.attrs[j].name \in VerbNames}}

\* C2: the request handed to the transport client uses the verb the method declares.
C2_RequestUsesDeclaredVerb ==
    \A c \in Callers :
        InFlight(c) => callers[c].req.verb \in DeclaredVerbs(Declared(callers[c].m))

\* the headers listed by the attributes called n, in the order written
Listed(attrs, n) ==
    LET sel == SelectSeq(attrs, LAMBDA a : a.name = n /\ a.ok)
        hs == Flatten([i \in 1..Len(sel) |-> sel[i].headers])
    IN  [i \in 1..Len(hs) |-> Header(to_dashed(hs[i].name), hs[i].value)]

Repeats(hs) == \E i, j \in 1..Len(hs) : i # j /\ hs[i].name = hs[j].name

Names(hs) == {hs[i].name : i \in 1..Len(hs)}

\* a is b with some entries left out
RECURSIVE IsSubsequence(_, _)
IsSubsequence(a, b) ==
    IF a = <<>> THEN TRUE
    ELSE IF b = <<>> THEN FALSE
    ELSE IF Head(a) = Head(b) THEN IsSubsequence(Tail(a), Tail(b))
    ELSE IsSubsequence(a, Tail(b))

\* C3: when the `headers` annotation of a method (or the `default_headers` annotation
\* of the trait) lists a header name more than once, every listed pair is in the
\* header set of the request, in the order declared.
C3_RepeatedHeadersAllSent ==
    \A c \in Callers :
        OnWire(c) =>
            LET method == Listed(Declared(callers[c].m).attrs, "headers")
                default == Listed(item.attrs, "default_headers")
            IN  /\ Repeats(method) => IsSubsequence(method, callers[c].wire.headers)
                /\ Repeats(default) => IsSubsequence(default, callers[c].wire.headers)

\* C4: a header name of both the default layer and the method layer is twice in the
\* header set of the request, the default occurrence first.
C4_DefaultThenMethodHeaders ==
    \A c \in Callers :
        OnWire(c) =>
            LET method == Listed(Declared(callers[c].m).attrs, "headers")
                default == Listed(item.attrs, "default_headers")
                sent == callers[c].wire.headers
            IN  \A n \in Names(method) \cap Names(default) :
                    LET at == {i \in 1..Len(sent) : sent[i].name = n}
                    IN  /\ Cardinality(at) >= 2
                        /\ \E i \in at : /\ \A j \in at : i <= j
                                         /\ \E k \in 1..Len(default) : default[k] = sent[i]

\* C5: the client of the instance is built once, however many callers are in a method
\* of the instance, and every caller in a method sees the client the builder made.
C5_ClientBuiltOnce ==
    /\ instance.builds <= 1
    /\ instance.state = "built" =>
          /\ instance.builds = 1
          /\ instance.client = ClientBuilder_headers(HeaderMapOf(expanded.default_headers))
    /\ \A c \in Callers : InFlight(c) => instance.state = "built"

\* every caller is in a method of the one instance at the same time
C5_Witness ==
    /\ instance.state = "built" /\ instance.builds = 1
    /\ \A c \in Callers : callers[c].pc \in {"req", "sent"}

NoVerb(method) == DeclaredVerbs(method) = {}

\* C6 as stated: a method with none of the verb annotations is rejected when the
\* service is compiled, with the `expected ...` error of Request::extract, and no
\* client implementation is generated.
C6_NoVerbRejected ==
    (expanded.state # "none" /\ \E i \in 1..Len(item.items) :
                                    IsMethod(item.items[i]) /\ NoVerb(item.items[i])) =>
        /\ expanded.state = "panic"
        /\ expanded.err = ExpectedRequest
        /\ expanded.methods = <<>>

\* C6 as amended: a method without a default body and with none of the verb
\* annotations is rejected when the service is compiled: Request::extract returns an
\* error, the `expected ...` error when the `args` attributes of the method parse, no
\* client implementation is generated and the crate does not compile.
C6_NoVerbWithoutBodyRejected ==
    \A i \in 1..Len(item.items) :
        LET it == item.items[i]
        IN  (IsMethod(it) /\ ~it.default /\ NoVerb(it)) =>
                /\ ~Request_extract(it).ok
                /\ extract_args(it.attrs).ok =>
                      /\ Request_extract(it).err = ExpectedRequest
                      /\ Request_extract(it).ident = it.ident
                /\ expanded.state # "ok"
                /\ expanded.methods = <<>>
                /\ rustc # "ok"
                /\ instance.state = "none"

\* the macro has panicked on the second method of a trait, which has no verb
C6_Witness ==
    /\ Len(item.items) = 2
    /\ ~NoVerb(item.items[1])
    /\ NoVerb(item.items[2]) /\ ~item.items[2].default
    /\ expanded.state = "panic" /\ expanded.err = ExpectedRequest /\ expanded.ident = "n"
    /\ rustc = "error"

\* C7: a method with two conflicting verb annotations is rejected when the service is
\* compiled; every compiled method has exactly one verb.
C7_ConflictingVerbsRejected ==
    (\E i \in 1..Len(item.items) :
        /\ IsMethod(item.items[i]) /\ ~item.items[i].default
        /\ Cardinality(DeclaredVerbs(item.items[i])) >= 2) =>
        expanded.state # "ok"

\* a trait of one method whose only attribute is a well-formed verb annotation
OneVerbMethod ==
    /\ Len(item.items) = 1
    /\ IsMethod(item.items[1]) /\ ~item.items[1].default
    /\ Len(item.items[1].attrs) = 1
    /\ item.items[1].attrs[1].name \in VerbNames
    /\ item.items[1].attrs[1].ok
    /\ item.items[1].attrs[1].path = PathLit
    /\ item.items[1].inputs = <<>>

\* C8: a method annotated with any one verb of the documented set compiles into a
\* generated method, with that verb.
C8_EveryVerbCompiles ==
    (OneVerbMethod /\ rustc # "none") =>
        /\ rustc = "ok"
        /\ Len(expanded.methods) = 1
        /\ expanded.methods[1].verb = Upper(item.items[1].attrs[1].name)

\* the bindings written in the `args` annotations of a method
Explicit(method) ==
    LET sel == SelectSeq(method.attrs, LAMBDA a : a.name = "args" /\ a.ok)
    IN  Flatten([i \in 1..Len(sel) |-> sel[i].args])

\* C9: a placeholder with both an explicit `args` binding and a parameter of its name
\* takes the value of the explicit binding; the parameter is used when there is none.
C9_ExplicitBindingWins ==
    \A c \in Callers :
        InFlight(c) =>
            LET g == expanded.methods[callers[c].m]
                method == Declared(callers[c].m)
                explicit == Explicit(method)
                env == ScopeEnv(g, consts, callers[c].env)
                binds == [n \in SeqToSet(captures_iter(g.path)) |->
                            IF HasIdent(explicit, n)
                            THEN Eval(explicit[CHOOSE i \in 1..Len(explicit) :
                                                  explicit[i].ident = n].expr, env)
                            ELSE env[n]]
            IN  (/\ \E n \in SeqToSet(method.inputs) :
                       n \in SeqToSet(captures_iter(g.path)) /\ HasIdent(explicit, n)
                 /\ \A i \in 1..Len(explicit) :
                       explicit[i].expr.kind = "var" => explicit[i].expr.name \in DOMAIN env) =>
                    callers[c].req.url =
                        instance.base_url \o ReplaceFormatted(g.path, 1, binds)

\* the path templates of the verb annotations of a method
DeclaredPaths(method) ==
    {method.attrs[i].path :
        i \in {j \in 1..Len(method.attrs) :
                  method.attrs[j].name \in VerbNames /\ method.attrs[j].ok}}

\* C10: a path with a placeholder that has neither an explicit `args` binding nor a
\* parameter of its name makes the compilation of the service fail.
C10_UnboundPlaceholderRejected ==
    (rustc # "none" /\ \E i \in 1..Len(item.items) :
        LET it == item.items[i]
        IN  /\ IsMethod(it) /\ ~it.default
            /\ \E p \in DeclaredPaths(it) : \E n \in SeqToSet(captures_iter(p)) :
                  ~HasIdent(Explicit(it), n) /\ n \notin SeqToSet(it.inputs)) =>
        rustc = "error"

\* C11: the base URL declared in the `service` annotation is the prefix of the URL of
\* every request of the constructed service: the URL is that base URL followed by
\* the resolved path.
C11_UrlStartsWithDeclaredBaseUrl ==
    \A c \in Callers :
        InFlight(c) =>
            LET url == callers[c].req.url
                resolved == SubSeq(url, Len(instance.base_url) + 1, Len(url))
            IN  url = service_attr.base_url \o resolved

\* the headers written in the well-formed attributes called n, names as written
Written(attrs, n) ==
    LET sel == SelectSeq(attrs, LAMBDA a : a.name = n /\ a.ok)
    IN  Flatten([i \in 1..Len(sel) |-> sel[i].headers])

HasUnderscore(n) == \E i \in 1..Len(n) : n[i] = "_"

Dashed(n) == [i \in 1..Len(n) |-> IF n[i] = "_" THEN "-" ELSE n[i]]

\* C12: for every declared header `a_b = v`, of the default or of the method level,
\* the header set of the request has the name `a-b` and no entry named `a_b`.
C12_UnderscoreNamesDashed ==
    \A c \in Callers :
        OnWire(c) =>
            LET written == Written(item.attrs, "default_headers")
                               \o Written(Declared(callers[c].m).attrs, "headers")
                sent == callers[c].wire.headers
            IN  \A i \in 1..Len(written) :
                    HasUnderscore(written[i].name) =>
                        /\ HasName(sent, Dashed(written[i].name))
                        /\ ~HasName(sent, written[i].name)

\* the transport has failed in the call of caller c
SendFailed(c) == callers[c].sends >= 1 /\ ~callers[c].res.sent

\* C13: one call of a generated method sends at most once, and when the send fails
\* the failure is the error result of the method: no retry, no decode step, and the
\* error is not dropped.
C13_SingleShot ==
    \A c \in Callers :
        /\ callers[c].sends <= 1
        /\ callers[c].decodes <= 1
        /\ SendFailed(c) =>
              /\ callers[c].pc = "done"
              /\ callers[c].sends = 1
              /\ callers[c].decodes = 0
              /\ callers[c].result = Err("send", "")

\* a call whose send has failed is about to return the error, while another call
\* has been answered
C13_Witness ==
    \E c, d \in Callers :
        /\ SendFailed(c) /\ callers[c].pc = "done"
        /\ ~callers[c].result.ok /\ callers[c].result.err = "send"
        /\ callers[d].pc = "done" /\ callers[d].result.ok

\* C14: once the instance is built its client and base URL stay the ones set at
\* construction, and the compiled request templates (verb, path, headers of every
\* generated method) stay as they are, whatever the callers do.
C14_BuiltInstanceReadOnly ==
    [][instance.state = "built" =>
          /\ instance'.state = "built"
          /\ instance'.client = instance.client
          /\ instance'.base_url = instance.base_url
          /\ expanded' = expanded]_vars

\* a call has returned its result and another is on its way, on the same instance
C14_Witness ==
    /\ instance.state = "built"
    /\ instance.base_url \in BaseUrls
    /\ \E c, d \in Callers :
          /\ callers[c].pc = "done" /\ callers[c].decodes = 1
          /\ callers[d].pc = "req"

\* C15: when the client builder fails the construction panics: no instance is
\* returned, the builder has run once and does not run again.
C15_BuildFailureFatal ==
    /\ instance.builds <= 1
    /\ instance.state = "panicked" =>
          /\ instance.builds = 1
          /\ instance.client = <<>>
          /\ \A c \in Callers : callers[c].pc = "idle"
    /\ rustc = "ok" =>
          \A url \in BaseUrls :
              /\ Constructor(expanded, url, FALSE).state = "panicked"
              /\ Constructor(expanded, url, FALSE).builds = 1

\* the builder has failed and the constructor has panicked
C15_Witness ==
    /\ instance.state = "panicked"
    /\ instance.builds = 1
    /\ \A c \in Callers : callers[c].pc = "idle"

\* the call of caller c has been answered and has its result
Answered(c) == callers[c].pc = "done" /\ callers[c].res.sent

\* C16: for a method with no `response` annotation the body of the response is
\* decoded as JSON into the type the method returns, and a body that is not JSON of
\* that type gives an error result.
C16_JsonByDefault ==
    \A c \in Callers :
        (Answered(c) /\ response_extract(Declared(callers[c].m).attrs).val = <<>>) =>
            LET ty == DecodedType(expanded.methods[callers[c].m])
                b == callers[c].res.body
                fits == \/ ty = Unit /\ JsonKind(b) = "null"
                        \/ ty = StringTy /\ JsonKind(b) = "string"
                        \/ ty = T /\ JsonKind(b) = "number"
            IN  /\ callers[c].decodes = 1
                /\ callers[c].result.ok <=> fits
                /\ ~fits => callers[c].result = Err("decode", "")
                /\ (fits /\ ty = T) => callers[c].result = Ok(b)

\* one call has decoded the body `1` into T, another has failed on the body `x`
C16_Witness ==
    \E c, d \in Callers :
        /\ Answered(c) /\ Answered(d)
        /\ response_extract(Declared(callers[c].m).attrs).val = <<>>
        /\ DecodedType(expanded.methods[callers[c].m]) = T
        /\ callers[c].res.body = <<"1">> /\ callers[c].result = Ok(<<"1">>)
        /\ callers[d].res.body = <<"x">> /\ callers[d].result = Err("decode", "")

\* C17: for a method that declares `#[response(text())]` the result is the body of
\* the response as text, and the body is not parsed as JSON.
C17_TextIsBodyUnparsed ==
    \A c \in Callers :
        (Answered(c) /\ response_extract(Declared(callers[c].m).attrs).val
                            = <<Arg(text, NoExpr)>>) =>
            /\ callers[c].result = Ok(callers[c].res.body)
            /\ callers[c].decodes = 0

\* C18: for a method that returns the empty type `()` no decode step runs: the call
\* succeeds whatever the body of the response is, once the transport has answered.
C18_UnitNotDecoded ==
    \A c \in Callers :
        (Answered(c) /\ DecodedType(expanded.methods[callers[c].m]) = Unit) =>
            /\ callers[c].result.ok
            /\ callers[c].decodes = 0

\* C19: a response with a status that is not a success is an error result of the
\* method, for every method.
C19_ErrorStatusIsError ==
    \A c \in Callers :
        (Answered(c) /\ ~is_success(callers[c].res.status)) => ~callers[c].result.ok

\* name/value pairs, written key, value, key, value, as a query string: k=v&k=v
RECURSIVE form_urlencoded(_)
form_urlencoded(kv) ==
    IF Len(kv) < 2 THEN <<>>
    ELSE <<kv[1], "=", kv[2]>>
         \o (IF Len(kv) > 2 THEN <<"&">> ELSE <<>>)
         \o form_urlencoded(SubSeq(kv, 3, Len(kv)))

\* C20: for a method that declares `#[request(query)]` the pairs it is called with
\* are appended to the query string of the URL, in order and none overwritten.
C20_QueryPairsAppended ==
    \A c \in Callers :
        (InFlight(c) /\ \E i \in 1..Len(Declared(callers[c].m).attrs) :
                            /\ Declared(callers[c].m).attrs[i].name = "request"
                            /\ Declared(callers[c].m).attrs[i].args = <<Arg(query, NoExpr)>>) =>
            LET g == expanded.methods[callers[c].m]
            IN  callers[c].req.url =
                    instance.base_url \o ReplaceFormatted(g.path, 1, Bindings(g, c))
                        \o <<"?">> \o form_urlencoded(callers[c].env[query])

\* the JSON serialization of a string value
to_json(v) == <<"\"">> \o v \o <<"\"">>

ContentType == <<"c", "o", "n", "t", "e", "n", "t", "-", "t", "y", "p", "e">>
ApplicationJson == <<"a", "p", "p", "l", "i", "c", "a", "t", "i", "o", "n", "/", "j", "s", "o", "n">>

\* the `request` attributes of a declared method
RequestAttrs(method) == SelectSeq(method.attrs, LAMBDA a : a.name = "request")

\* the encode variant a method declares: the name in its `request` attribute
DeclaredVariant(method) ==
    IF RequestAttrs(method) = <<>> THEN "none"
    ELSE IF RequestAttrs(method)[1].args[1].ident = json THEN "json"
    ELSE IF RequestAttrs(method)[1].args[1].ident = query THEN "query"
    ELSE "other"

\* the encode variant a request shows: a JSON body with its content type, a query
\* string in the URL, or neither
AppliedVariant(req) ==
    IF req.body # <<>> /\ \E i \in 1..Len(req.headers) :
            req.headers[i] = Header(ContentType, ApplicationJson)
    THEN "json"
    ELSE IF req.body = <<>> /\ \E i \in 1..Len(req.url) : req.url[i] = "?" THEN "query"
    ELSE IF req.body = <<>> THEN "none"
    ELSE "other"

\* C21: the request of every call carries exactly the encode variant its method
\* declares in `request` (none when it declares no `request`), and the `json`
\* variant carries the JSON of the named argument as body with Content-Type
\* application/json.
C21_DeclaredVariantApplies ==
    \A c \in Callers :
        InFlight(c) =>
            LET method == Declared(callers[c].m)
            IN  /\ AppliedVariant(callers[c].req) = DeclaredVariant(method)
                /\ DeclaredVariant(method) = "json" =>
                       callers[c].req.body =
                           to_json(callers[c].env[RequestAttrs(method)[1].args[1].expr.name])

\* the step in which `service` processes the trait and emits it again
Processed == expanded.state = "none" /\ expanded'.state = "ok"

\* C22: `service` keeps the parameter list of every declared method, and makes the
\* return type of every method without default body error-carrying: `-> T`, T not
\* a Result, becomes `-> Result<T, Self::Error>`, and no return type becomes a
\* result with the empty success value.
C22_SignaturesMadeErrorCarrying ==
    [][Processed =>
          \A i \in 1..Len(item.items) :
              IsMethod(item.items[i]) =>
                  /\ item'.items[i].inputs = item.items[i].inputs
                  /\ (~item.items[i].default /\ item.items[i].output.kind = "type"
                          /\ item.items[i].output.ty.head # "Result") =>
                        item'.items[i].output =
                            Output(Type("Result", <<item.items[i].output.ty, SelfError>>))
                  /\ (~item.items[i].default /\ item.items[i].output = NoOutput) =>
                        item'.items[i].output = Output(Type("Result", <<Unit, SelfError>>))]_vars

\* C23: the request of a call is the one its method's template gives for the
\* arguments of that call, and two calls of the same method with the same
\* arguments have the same request and send the same, whatever the other callers
\* did before or do meanwhile.
C23_CallsIndependent ==
    \A c \in Callers :
        InFlight(c) =>
            LET g == expanded.methods[callers[c].m]
            IN  /\ callers[c].req = BuildRequest(g, instance, ScopeEnv(g, consts, callers[c].env))
                /\ \A d \in Callers :
                      (InFlight(d) /\ callers[d].m = callers[c].m
                          /\ callers[d].env = callers[c].env) =>
                         /\ callers[d].req = callers[c].req
                         /\ (OnWire(c) /\ OnWire(d)) => callers[d].wire = callers[c].wire

\* two calls of one method with the same arguments, one finished with an answer
\* and one begun after it on the same instance
C23_Witness ==
    \E c, d \in Callers :
        /\ c # d
        /\ callers[c].pc = "done" /\ callers[c].res.sent
        /\ callers[d].pc = "req"
        /\ callers[d].m = callers[c].m /\ callers[d].env = callers[c].env
        /\ DOMAIN callers[c].env # {}

\* the template from position i on with every `{name:spec}` written `{name}`
RECURSIVE StripSpecs(_, _)
StripSpecs(t, i) ==
    IF i > Len(t) THEN <<>>
    ELSE IF t[i] = "{" /\ i + 1 <= Len(t) /\ t[i + 1] = "{"
    THEN <<"{", "{">> \o StripSpecs(t, i + 2)
    ELSE IF t[i] = "{"
    THEN LET close == IndexFrom(t, "}", i + 1)
             colon == IndexFrom(t, ":", i + 1)
         IN  IF close # 0 /\ colon # 0 /\ colon < close
             THEN SubSeq(t, i, colon - 1) \o <<"}">> \o StripSpecs(t, close + 1)
             ELSE <<t[i]>> \o StripSpecs(t, i + 1)
    ELSE <<t[i]>> \o StripSpecs(t, i + 1)

HasSpec(path) == StripSpecs(path, 1) # path

\* the URL the call of caller c would request were the specs of its path left out
UrlWithoutSpecs(c) ==
    LET g == expanded.methods[callers[c].m]
    IN  FormatUrl([g EXCEPT !.path = StripSpecs(g.path, 1)], instance,
                  ScopeEnv(g, consts, callers[c].env))

\* the placeholders of a path that carry a width
WidthHoles(path) ==
    LET pieces == ParseFormat(path).pieces
    IN  {pieces[i] : i \in {j \in 1..Len(pieces) : pieces[j].kind = "arg" /\ pieces[j].width > 0}}

C24_WitnessWide ==
    \E c \in Callers :
        /\ InFlight(c)
        /\ expanded.methods[callers[c].m].path = PathSpec1
        /\ callers[c].req.url = UrlWithoutSpecs(c)

\* the user agents the `client` attributes of the trait declare
DeclaredUserAgents ==
    {item.attrs[i].args[1].expr.val :
        i \in {j \in 1..Len(item.attrs) :
                  /\ item.attrs[j].name = "client"
                  /\ item.attrs[j].args[1].ident = user_agent}}

\* C25: when the trait declares `#[client(user_agent = ...)]` the built client's
\* user agent is the declared one, not the library default, and that is the user
\* agent a request without one of its own is sent with.
C25_DeclaredUserAgentWins ==
    \A v \in DeclaredUserAgents :
        /\ instance.state = "built" =>
              /\ Header(UserAgentName, v) \in SeqToSet(instance.client)
              /\ Header(UserAgentName, AppUserAgentValue) \notin SeqToSet(instance.client)
        /\ \A c \in Callers :
              OnWire(c) => Header(UserAgentName, v) \in SeqToSet(callers[c].wire.headers)

\* C26: a placeholder name of the path that no `args` annotation binds has exactly
\* one implicit binding `name = name` in the generated argument list, however
\* often the name occurs in the path.
C26_OneImplicitBindingPerName ==
    expanded.state = "ok" =>
        \A m \in 1..Len(expanded.methods) :
            LET g == expanded.methods[m]
            IN  \A n \in SeqToSet(captures_iter(g.path)) :
                    ~HasIdent(Explicit(Declared(m)), n) =>
                        Cardinality({i \in 1..Len(g.args) :
                                        g.args[i] = Arg(n, Var(n))}) = 1

\* C27: `service` leaves the return type of a method declared with a Result, with
\* or without type arguments, as it is written, and ensure_method_return_result
\* applied to the signatures it has produced changes nothing.
C27_ResultNeverWrapped ==
    [][Processed =>
          /\ \A i \in 1..Len(item.items) :
                (IsMethod(item.items[i]) /\ item.items[i].output.kind = "type"
                    /\ item.items[i].output.ty.head = "Result") =>
                   item'.items[i].output = item.items[i].output
          /\ ensure_method_return_result(item'.items) = item'.items]_vars

\* C28: the header list of every generated method is the one Headers::extract
\* returns for the `headers` attributes of the method, all of them in attribute
\* order, and the default header list of the service is the one it returns for
\* the `default_headers` attributes of the trait; attributes that do not parse are
\* an error of both.
C28_HeadersOfAllAttributes ==
    expanded.state = "ok" =>
        /\ Headers_extract("default_headers", item.attrs).ok
        /\ expanded.default_headers =
               generate_header_map(Headers_extract("default_headers", item.attrs).val)
        /\ \A m \in 1..Len(expanded.methods) :
               /\ Headers_extract("headers", Declared(m).attrs).ok
                      <=> expanded.methods[m].headers.kind # "error"
               /\ Headers_extract("headers", Declared(m).attrs).ok =>
                      expanded.methods[m].headers.inserts =
                          generate_header_map(Headers_extract("headers", Declared(m).attrs).val)

\* how often the supertraits name the Service capability, as `Service` or as
\* `retrofit::Service`
ServiceBounds(supertraits) ==
    Cardinality({i \in 1..Len(supertraits) :
                    /\ supertraits[i].kind = "trait"
                    /\ supertraits[i].path \in {"Service", "retrofit::Service"}})

\* what `service` does to the supertraits s to give the supertraits t: the bound
\* is added at the end when s has none, and s is kept as it is otherwise
BoundEnsured(s, t) ==
    /\ ServiceBounds(s) = 0 => t = Append(s, TraitBound("retrofit::Service"))
    /\ ServiceBounds(s) > 0 => t = s

\* C29 as stated: after `service` the trait has the Service capability among its
\* supertraits exactly once, added when it had none, and what it had is kept in
\* order.
C29_BoundExactlyOnce ==
    [][Processed =>
          /\ ServiceBounds(item'.supertraits) = 1
          /\ BoundEnsured(item.supertraits, item'.supertraits)]_vars

\* C29 amended: after `service` the trait has the Service capability among its
\* supertraits at least once, and as often as it was written when it was written:
\* the bound is added when the trait had none, and what it had is kept in order.
C29_BoundAtLeastOnce ==
    [][Processed =>
          /\ ServiceBounds(item'.supertraits) >= 1
          /\ ServiceBounds(item.supertraits) > 0 =>
                ServiceBounds(item'.supertraits) = ServiceBounds(item.supertraits)
          /\ ServiceBounds(item.supertraits) = 0 => ServiceBounds(item'.supertraits) = 1
          /\ BoundEnsured(item.supertraits, item'.supertraits)]_vars

\* a processed trait whose supertrait Send is followed by the added bound
C29_Witness ==
    /\ expanded.state = "ok"
    /\ item.supertraits = <<TraitBound("Send"), TraitBound("retrofit::Service")>>

\* C30: `service` emits one implementation for each method of the trait without
\* default body, in the order declared and with its name and parameters, none for
\* a method with a default body or an item that is no method, and leaves every
\* method with a default body and every other item as written.
C30_OneImplementationPerMethod ==
    [][Processed =>
          LET declared == SelectSeq(item.items, LAMBDA it : IsMethod(it) /\ ~it.default)
          IN  /\ Len(expanded'.methods) = Len(declared)
              /\ \A i \in 1..Len(declared) :
                    /\ expanded'.methods[i].ident = declared[i].ident
                    /\ expanded'.methods[i].sig.inputs = declared[i].inputs
              /\ \A i \in 1..Len(item.items) :
                    (~IsMethod(item.items[i]) \/ item.items[i].default) =>
                        item'.items[i] = item.items[i]]_vars

\* the processed trait of five items, two of them methods without default body,
\* with the two implementations m and n
C30_Witness ==
    /\ expanded.state = "ok"
    /\ Len(item.items) = 5
    /\ \E i, j \in 1..Len(item.items) :
          /\ ~IsMethod(item.items[i])
          /\ IsMethod(item.items[j]) /\ item.items[j].default
    /\ [i \in 1..Len(expanded.methods) |-> expanded.methods[i].ident] = <<"m", "n">>

====
